---------------------------- MODULE Spec2Model ----------------------------
(***************************************************************************)
(* State-machine model of the TWSE daily-summary collector                 *)
(* (src/stockData_retrieve/stock_fetcher.py): the trading calendar, the    *)
(* date resolver and the check / fetch / normalise / save pipeline of      *)
(* main().                                                                 *)
(*                                                                         *)
(* A datetime is a record [ord, hour]: ord is the proleptic Gregorian      *)
(* ordinal of its date (datetime.min has ordinal 1 and is a Monday), hour  *)
(* its time of day.  Minutes and seconds are not kept: every comparison    *)
(* the program makes is against midnight or against 16:00 sharp.           *)
(***************************************************************************)
EXTENDS Integers, Sequences, FiniteSets, TLC

(***************************************************************************)
(* Bounds of the model.                                                    *)
(***************************************************************************)
\* last ordinal of the modelled window of dates (the window is 1..MaxDay)
MaxDay == 6
\* longest run of consecutive holidays the calendar marks inside the window
MaxHolidays == 2
\* number of invocations of main() in one behaviour
MaxRuns == 3
\* longest row list or column handed to the normaliser on its own
MaxRows == 2
\* highest price the quote source answers with
MaxPrice == 4

(***************************************************************************)
(* Program constants.                                                      *)
(***************************************************************************)
\* datetime.min.toordinal(): stepping below it raises OverflowError
MinOrdinal == 1
\* CUTOFF_TIME = now_tst.replace(hour=16, minute=0, ...)
CUTOFF_HOUR == 16

Procs == {1, 2}
Dates == MinOrdinal..MaxDay
\* times of day a run may start at: before the cutoff and at the cutoff
Hours == {CUTOFF_HOUR - 1, CUTOFF_HOUR}
DateTimes == [ord : Dates, hour : {0} \cup Hours]
NoDate == [ord |-> 0, hour |-> 0]

(***************************************************************************)
(* datetime helpers                                                        *)
(***************************************************************************)
\* datetime.weekday(): (toordinal() + 6) % 7, Monday = 0 ... Sunday = 6
weekday(dt) == (dt.ord + 6) % 7

\* datetime.date(): the date part, time of day dropped
date_of(dt) == dt.ord

\* now_tst.replace(hour=h, minute=0, second=0, microsecond=0)
replace_hour(dt, h) == [ord |-> dt.ord, hour |-> h]

\* a >= b on datetimes of one timezone
dt_ge(a, b) == \/ a.ord > b.ord
               \/ a.ord = b.ord /\ a.hour >= b.hour

\* whether dt - timedelta(days=1) is representable (else OverflowError)
can_step_back(dt) == dt.ord - 1 >= MinOrdinal

\* the mutant of step_back: steps two days at a time
step_back_two(dt) == [ord |-> dt.ord - 2, hour |-> dt.hour]

\* the mutant of step_back: the day is added
step_forward(dt) == [ord |-> dt.ord + 1, hour |-> dt.hour]

\* dt - timedelta(days=1)
step_back(dt) == [ord |-> dt.ord - 1, hour |-> dt.hour]

\* target_date.strftime('%Y%m%d'): the key of a date, its time of day dropped
strftime_Ymd(dt) == dt.ord


(***************************************************************************)
(* Strings of the provider feed are sequences of one-character strings.    *)
(***************************************************************************)
Digits == {"0", "1", "2", "3", "4", "5", "6", "7", "8", "9"}

DigitVal(c) ==
  CASE c = "0" -> 0 [] c = "1" -> 1 [] c = "2" -> 2 [] c = "3" -> 3
    [] c = "4" -> 4 [] c = "5" -> 5 [] c = "6" -> 6 [] c = "7" -> 7
    [] c = "8" -> 8 [] c = "9" -> 9

DigitChr(n) ==
  CASE n = 0 -> "0" [] n = 1 -> "1" [] n = 2 -> "2" [] n = 3 -> "3"
    [] n = 4 -> "4" [] n = 5 -> "5" [] n = 6 -> "6" [] n = 7 -> "7"
    [] n = 8 -> "8" [] n = 9 -> "9"

AllDigits(s) == \A i \in 1..Len(s) : s[i] \in Digits

RECURSIVE DigitsToInt(_)
DigitsToInt(s) ==
  IF s = <<>> THEN 0
  ELSE 10 * DigitsToInt(SubSeq(s, 1, Len(s) - 1)) + DigitVal(s[Len(s)])

\* str(n) of a non-negative Python int
RECURSIVE IntToStr(_)
IntToStr(n) ==
  IF n < 10 THEN <<DigitChr(n)>> ELSE IntToStr(n \div 10) \o <<DigitChr(n % 10)>>

\* .str.replace(',', '')
remove_commas(s) == SelectSeq(s, LAMBDA c : c # ",")

\* .str.replace('--', '0'): non-overlapping occurrences, left to right
RECURSIVE replace_dashdash(_)
replace_dashdash(s) ==
  IF Len(s) < 2 THEN s
  ELSE IF s[1] = "-" /\ s[2] = "-"
       THEN <<"0">> \o replace_dashdash(SubSeq(s, 3, Len(s)))
       ELSE <<s[1]>> \o replace_dashdash(Tail(s))

\* .str.replace('-', '0')
replace_dash(s) == [i \in 1..Len(s) |-> IF s[i] = "-" THEN "0" ELSE s[i]]

\* .str.strip()
RECURSIVE lstrip(_)
lstrip(s) == IF s # <<>> /\ Head(s) = " " THEN lstrip(Tail(s)) ELSE s

RECURSIVE rstrip(_)
rstrip(s) ==
  IF s # <<>> /\ s[Len(s)] = " " THEN rstrip(SubSeq(s, 1, Len(s) - 1)) ELSE s

strip(s) == lstrip(rstrip(s))

\* the chain of line 103 applied to one cell
clean_cell(s) == strip(replace_dash(replace_dashdash(remove_commas(s))))

\* a numeric cell: NaN, an infinity (val is its sign), or the decimal
\* val * 10^-scale with no trailing zero in its fraction
NaN == [nan |-> TRUE, inf |-> FALSE, val |-> 0, scale |-> 0]
Inf == [nan |-> FALSE, inf |-> TRUE, val |-> 1, scale |-> 0]
Num(n) == [nan |-> FALSE, inf |-> FALSE, val |-> n, scale |-> 0]

\* position of the decimal point of s, 0 when it has none
PointAt(s) ==
  IF \E i \in 1..Len(s) : s[i] = "."
  THEN CHOOSE i \in 1..Len(s) : s[i] = "." /\ \A j \in 1..(i - 1) : s[j] # "."
  ELSE 0

\* an unsigned decimal literal: digits around at most one point
IsDecimalLiteral(s) ==
  /\ \A i \in 1..Len(s) : s[i] \in Digits \cup {"."}
  /\ Cardinality({i \in 1..Len(s) : s[i] = "."}) <= 1
  /\ \E i \in 1..Len(s) : s[i] \in Digits

RECURSIVE rstrip_zeros(_)
rstrip_zeros(s) ==
  IF s # <<>> /\ s[Len(s)] = "0" THEN rstrip_zeros(SubSeq(s, 1, Len(s) - 1)) ELSE s

\* the value of an unsigned decimal literal
DecimalValue(s) ==
  LET p == PointAt(s)
      ip == IF p = 0 THEN s ELSE SubSeq(s, 1, p - 1)
      fp == IF p = 0 THEN <<>> ELSE rstrip_zeros(SubSeq(s, p + 1, Len(s)))
  IN  [nan |-> FALSE, inf |-> FALSE, val |-> DigitsToInt(ip \o fp), scale |-> Len(fp)]

\* spellings of infinity the float parser of pandas accepts (any case)
InfWords == { <<"i", "n", "f">>, <<"I", "n", "f">>, <<"I", "N", "F">> }

\* pd.to_numeric(errors='coerce') on one cleaned cell: an optional sign, then
\* a decimal literal or a spelling of infinity; NaN for anything else
to_numeric(s) ==
  LET signed == s # <<>> /\ s[1] \in {"+", "-"}
      body == IF signed THEN Tail(s) ELSE s
      v == IF IsDecimalLiteral(body) THEN DecimalValue(body)
           ELSE IF body \in InfWords THEN Inf
           ELSE NaN
  IN  IF signed /\ s[1] = "-" /\ ~v.nan THEN [v EXCEPT !.val = -@] ELSE v

\* dtype of a column coerced from the strings strs: int64 when every cell is
\* an integer literal, float64 as soon as one is NaN, infinite or has a point
is_float_column(strs) ==
  \E i \in 1..Len(strs) :
    \/ to_numeric(strs[i]).nan
    \/ to_numeric(strs[i]).inf
    \/ PointAt(strs[i]) # 0

RECURSIVE Pow10(_)
Pow10(k) == IF k = 0 THEN 1 ELSE 10 * Pow10(k - 1)

\* the k low decimal digits of n
RECURSIVE FracDigits(_, _)
FracDigits(n, k) ==
  IF k = 0 THEN <<>> ELSE FracDigits(n \div 10, k - 1) \o <<DigitChr(n % 10)>>

\* .astype(str) of one cell of a column of the given dtype
astype_str(cell, isfloat) ==
  LET m == IF cell.val < 0 THEN 0 - cell.val ELSE cell.val
      sgn == IF cell.val < 0 THEN <<"-">> ELSE <<>>
  IN  IF cell.nan THEN <<"n", "a", "n">>
      ELSE IF cell.inf THEN sgn \o <<"i", "n", "f">>
      ELSE IF ~isfloat THEN sgn \o IntToStr(m)
      ELSE sgn \o IntToStr(m \div Pow10(cell.scale)) \o <<".">>
             \o (IF cell.scale = 0 THEN <<"0">> ELSE FracDigits(m, cell.scale))

\* .fillna(0).astype(int) of one finite cell: NaN becomes 0, a fraction is
\* cut off toward zero
astype_int(cell) ==
  IF cell.nan THEN 0
  ELSE IF cell.val < 0 THEN 0 - ((0 - cell.val) \div Pow10(cell.scale))
  ELSE cell.val \div Pow10(cell.scale)

\* .str.match(r'^\d{4}$')
match_4digits(s) == Len(s) = 4 /\ AllDigits(s)

(***************************************************************************)
(* Provider responses.  A raw row is a record of the strings of two of its *)
(* columns: the security code '證券代號' and the trade volume '成交股數'.  *)
(* The other numeric columns go through the same coerce_column and stay    *)
(* out of the rows.                                                        *)
(***************************************************************************)
Code2330 == <<"2", "3", "3", "0">>
Code2317 == <<"2", "3", "1", "7">>
CodeTWA00 == <<"T", "W", "A", "0", "0">>

\* a row of the feed with a volume as the exchange prints it
Row(code) == [code |-> code, volume |-> <<"1", ",", "2", "3", "4">>]

\* row lists of table 8 the provider may answer with
RowLists == { <<>>, <<Row(Code2330)>>, <<Row(Code2317), Row(Code2330)>>,
              <<Row(Code2330), Row(CodeTWA00)>> }

\* requests.RequestException: timeout, connection error, raise_for_status() on
\* a non-2xx status, response.json() on a body that is not JSON
NetworkFailures == {"timeout", "connection_error", "http_error", "bad_json"}

\* parsed bodies whose shape breaks lines 84-116 outside the except clause
BrokenShapes == {"short_tables", "no_fields", "no_data", "no_volume_field", "no_code_field"}

Responses ==
  [kind : NetworkFailures \cup BrokenShapes \cup {"no_tables", "flat"}, rows : {<<>>}]
    \cup [kind : {"tables"}, rows : RowLists]

\* what an invocation remembers of the answer it got
response_class(resp) ==
  IF resp.kind \in NetworkFailures THEN "network_failure"
  ELSE IF resp.kind \in BrokenShapes THEN "broken_shape"
  ELSE IF resp.kind = "tables" /\ resp.rows = <<>> THEN "empty_rows"
  ELSE resp.kind

Outcomes == {"already_present", "fetched_and_saved", "fetched_empty", "aborted_future_date"}

\* lines 100-104 on one column: the replace / strip chain on every cell
clean_column(strs) == [i \in 1..Len(strs) |-> clean_cell(strs[i])]

\* lines 100-104 on one column: the coerced cells and the dtype they get
coerce_column(strs) ==
  LET cleaned == clean_column(strs)
  IN  [cells |-> [i \in 1..Len(strs) |-> to_numeric(cleaned[i])],
       isfloat |-> is_float_column(cleaned)]

\* lines 95-116 on the rows of the selected table: clean and coerce the
\* columns, prefix the trade date, cast the volume to int (which raises on an
\* infinite value), keep the rows whose code prints as 4 digits
normalize(date_key, rows) ==
  LET code == coerce_column([i \in 1..Len(rows) |-> rows[i].code])
      volume == coerce_column([i \in 1..Len(rows) |-> rows[i].volume])
      df == [i \in 1..Len(rows) |->
               [Trade_Date |-> date_key,
                Stock_ID |-> code.cells[i],
                Volume |-> astype_int(volume.cells[i])]]
  IN  IF \E i \in 1..Len(rows) : volume.cells[i].inf
      THEN [exc |-> "IntCastingNaNError", df |-> <<>>]
      ELSE [exc |-> "none",
            df |-> SelectSeq(df, LAMBDA r :
                     match_4digits(astype_str(r.Stock_ID, code.isfloat)))]

\* normalize on the dates of the window and the row lists of the provider,
\* tabulated once
normalize_table ==
  [date_key \in Dates |-> [rows \in RowLists |-> normalize(date_key, rows)]]

\* the mutant of fetch_twse_daily_summary: the except clause catches
\* requests.Timeout only
fetch_catching_timeout_only(date_key, resp) ==
  CASE resp.kind = "timeout" -> [exc |-> "none", df |-> <<>>]
    [] resp.kind \in NetworkFailures \ {"timeout"} -> [exc |-> "RequestException", df |-> <<>>]
    [] resp.kind = "short_tables" -> [exc |-> "IndexError", df |-> <<>>]
    [] resp.kind \in BrokenShapes \ {"short_tables"} -> [exc |-> "KeyError", df |-> <<>>]
    [] resp.kind \in {"no_tables", "flat"} -> [exc |-> "none", df |-> <<>>]
    [] resp.kind = "tables" -> normalize_table[date_key][resp.rows]

\* fetch_twse_daily_summary(target_date): the exception it raises ("none" when
\* it returns) and the DataFrame it returns
fetch_twse_daily_summary(date_key, resp) ==
  CASE resp.kind \in NetworkFailures -> [exc |-> "none", df |-> <<>>]
    [] resp.kind = "short_tables" -> [exc |-> "IndexError", df |-> <<>>]
    [] resp.kind \in BrokenShapes \ {"short_tables"} -> [exc |-> "KeyError", df |-> <<>>]
    [] resp.kind \in {"no_tables", "flat"} -> [exc |-> "none", df |-> <<>>]
    [] resp.kind = "tables" -> normalize_table[date_key][resp.rows]

(***************************************************************************)
(* State.  The calendar, the clock and the store are shared; every other   *)
(* variable holds, per process, the locals of one invocation of main().    *)
(***************************************************************************)
VARIABLES
  TW_HOLIDAYS,        \* ordinals the calendar marks as holidays
  clock,              \* the latest datetime.now(TZ_TAIPEI) handed out
  runs,               \* invocations started so far
  data_folder,        \* whether DATA_FOLDER exists
  files,              \* keys d for which stock_data_<d>.db exists
  tables,             \* key -> rows of TABLE_NAME in that file (<<>>: none)
  writer,             \* key -> the process whose to_sql wrote that table last
  last,               \* the latest finished invocation, as reported
  pc,                 \* position of each process
  caller,             \* who called save_to_sqlite: "main" or "direct"
  now_tst,            \* main: now_tst
  scenario,           \* main: which branch of lines 185-190 was taken
  itd_arg,            \* argument of the latest is_trading_day call
  itd_res,            \* its result
  flt_arg,            \* find_last_trading_day: current_date
  flt_date,           \* find_last_trading_day: target_date
  flt_ret,            \* its call site: "resolve" (188, 190) or "abort" (202)
  target_check_date,  \* main: target_check_date
  response,           \* what the provider answered to this invocation
  market_df,          \* main: market_df / save_to_sqlite: df
  outcome,            \* the branch of lines 194-223 the invocation ended in
  final_output_date,  \* main: final_output_date
  net_calls,          \* requests.get calls of this invocation
  writes,             \* writes of save_to_sqlite in this invocation
  fault,              \* the exception that ended the invocation, or "none"
  files0,             \* files when the invocation started
  tables0,            \* tables when the invocation started
  saved,              \* dates for which an invocation saved a non-empty fetch
  call,               \* unit harness: the function called and its argument
  ret                 \* unit harness: what the call returned

shared == <<TW_HOLIDAYS, clock, runs, data_folder, files, tables, writer, last, saved>>
unit == <<call, ret>>
calendar_locals == <<itd_arg, itd_res, flt_arg, flt_date, flt_ret>>
main_locals == <<now_tst, scenario, target_check_date, response, market_df,
                 outcome, final_output_date, net_calls, writes, files0, tables0>>
vars == <<shared, pc, caller, fault, calendar_locals, main_locals, unit>>

(***************************************************************************)
(* TradingCalendar                                                         *)
(***************************************************************************)
\* the mutant of is_trading_day: the weekend test written weekday() > 5
is_trading_day_sat(H, target_date) ==
  IF weekday(target_date) > 5 THEN FALSE
  ELSE IF date_of(target_date) \in H THEN FALSE
  ELSE TRUE

\* is_trading_day(target_date), on the holiday calendar H
is_trading_day(H, target_date) ==
  IF weekday(target_date) >= 5 THEN FALSE
  ELSE IF date_of(target_date) \in H THEN FALSE
  ELSE TRUE

\* the mutant of is_data_fetched: the path of the CSV copy, which lines
\* 158-160 never write
is_data_fetched_csv(fs, target_date) == FALSE

\* the mutant of is_data_fetched: the file name built from the wrong date
is_data_fetched_prev_day(fs, target_date) == strftime_Ymd(target_date) - 1 \in fs

\* is_data_fetched(target_date): os.path.exists of the date-stamped file
is_data_fetched(fs, target_date) == strftime_Ymd(target_date) \in fs

\* holiday calendars: no holiday in the window, or one run of consecutive
\* holidays (TW_HOLIDAYS of line 22 restricted to the window)
Calendars == {H \in {d..e : d \in Dates, e \in Dates} : Cardinality(H) <= MaxHolidays}

\* the unit harness at rest
NoCall == [fn |-> "none", arg |-> <<>>]
NoReturn == [done |-> FALSE, val |-> <<>>]

NoRun == [target |-> 0, outcome |-> "none", present0 |-> FALSE, artifact |-> <<>>]

\* the collector after start-up: nothing stored, nobody running
InitPipeline ==
  /\ TW_HOLIDAYS \in Calendars
  /\ clock = [ord |-> MinOrdinal, hour |-> 0]
  /\ runs = 0
  /\ data_folder = FALSE
  /\ files = {}
  /\ tables = [d \in Dates |-> <<>>]
  /\ writer = [d \in Dates |-> 0]
  /\ last = NoRun
  /\ pc = [p \in Procs |-> "idle"]
  /\ caller = [p \in Procs |-> "main"]
  /\ now_tst = [p \in Procs |-> NoDate]
  /\ scenario = [p \in Procs |-> "none"]
  /\ itd_arg = [p \in Procs |-> NoDate]
  /\ itd_res = [p \in Procs |-> FALSE]
  /\ flt_arg = [p \in Procs |-> NoDate]
  /\ flt_date = [p \in Procs |-> NoDate]
  /\ flt_ret = [p \in Procs |-> "none"]
  /\ target_check_date = [p \in Procs |-> NoDate]
  /\ response = [p \in Procs |-> "none"]
  /\ market_df = [p \in Procs |-> <<>>]
  /\ outcome = [p \in Procs |-> "none"]
  /\ final_output_date = [p \in Procs |-> NoDate]
  /\ net_calls = [p \in Procs |-> 0]
  /\ writes = [p \in Procs |-> 0]
  /\ fault = [p \in Procs |-> "none"]
  /\ files0 = [p \in Procs |-> {}]
  /\ tables0 = [p \in Procs |-> [d \in Dates |-> <<>>]]
  /\ saved = {}

Init ==
  /\ InitPipeline
  /\ call = NoCall
  /\ ret = NoReturn

(***************************************************************************)
(* DateResolver: lines 185-190                                             *)
(***************************************************************************)
dt_lt(a, b) == ~dt_ge(a, b)
dt_gt(a, b) == dt_ge(a, b) /\ a # b

\* the mutant of resolve_scenario: the cutoff compared with > and <=
resolve_scenario_strict(H, now) ==
  LET today_tst == replace_hour(now, 0)
      CUTOFF_TIME == replace_hour(now, CUTOFF_HOUR)
  IN  IF is_trading_day(H, today_tst) /\ dt_gt(now, CUTOFF_TIME) THEN "A"
      ELSE IF is_trading_day(H, today_tst) /\ ~dt_gt(now, CUTOFF_TIME) THEN "B"
      ELSE "C"

\* which branch of the if / elif / else of lines 185-190 runs
resolve_scenario(H, now) ==
  LET today_tst == replace_hour(now, 0)
      CUTOFF_TIME == replace_hour(now, CUTOFF_HOUR)
  IN  IF is_trading_day(H, today_tst) /\ dt_ge(now, CUTOFF_TIME) THEN "A"
      ELSE IF is_trading_day(H, today_tst) /\ dt_lt(now, CUTOFF_TIME) THEN "B"
      ELSE "C"

Set(f, p, v) == [f EXCEPT ![p] = v]

\* a process that is not inside an invocation
Stopped(p) == pc[p] \in {"idle", "done", "crashed"}

\* the locals of a process that has exited
Reset(p) ==
  /\ now_tst' = Set(now_tst, p, NoDate)
  /\ scenario' = Set(scenario, p, "none")
  /\ itd_arg' = Set(itd_arg, p, NoDate)
  /\ itd_res' = Set(itd_res, p, FALSE)
  /\ flt_arg' = Set(flt_arg, p, NoDate)
  /\ flt_date' = Set(flt_date, p, NoDate)
  /\ flt_ret' = Set(flt_ret, p, "none")
  /\ target_check_date' = Set(target_check_date, p, NoDate)
  /\ response' = Set(response, p, "none")
  /\ market_df' = Set(market_df, p, <<>>)
  /\ outcome' = Set(outcome, p, "none")
  /\ final_output_date' = Set(final_output_date, p, NoDate)
  /\ net_calls' = Set(net_calls, p, 0)
  /\ writes' = Set(writes, p, 0)
  /\ files0' = Set(files0, p, {})
  /\ tables0' = Set(tables0, p, [d \in Dates |-> <<>>])

\* the clock's unit is half a trading session and a run takes seconds: the
\* clock does not move while another instance is running
Running(p) == ~Stopped(p)

\* main(), lines 169-190: read the clock, pick the scenario, and either take
\* today as the target (A) or call find_last_trading_day (B, C)
Start(p, now) ==
  /\ Stopped(p)
  /\ runs < MaxRuns
  /\ now.hour \in Hours
  /\ dt_ge(now, clock)
  /\ (\E q \in Procs \ {p} : Running(q)) => now = clock
  /\ LET today_tst == replace_hour(now, 0)
         sc == resolve_scenario(TW_HOLIDAYS, now)
         arg == IF sc = "B" THEN step_back(today_tst) ELSE today_tst
         overflow == sc = "B" /\ ~can_step_back(today_tst)
     IN  /\ clock' = now
         /\ runs' = runs + 1
         /\ caller' = Set(caller, p, "main")
         /\ now_tst' = Set(now_tst, p, now)
         /\ scenario' = Set(scenario, p, sc)
         /\ itd_arg' = Set(itd_arg, p, today_tst)
         /\ itd_res' = Set(itd_res, p, is_trading_day(TW_HOLIDAYS, today_tst))
         /\ flt_arg' = Set(flt_arg, p, IF sc = "A" \/ overflow THEN NoDate ELSE arg)
         /\ flt_date' = Set(flt_date, p, IF sc = "A" \/ overflow THEN NoDate ELSE arg)
         /\ flt_ret' = Set(flt_ret, p, IF sc = "A" \/ overflow THEN "none" ELSE "resolve")
         /\ target_check_date' = Set(target_check_date, p, IF sc = "A" THEN today_tst ELSE NoDate)
         /\ pc' = Set(pc, p, IF sc = "A" THEN "check" ELSE IF overflow THEN "crashed" ELSE "flt")
         /\ fault' = Set(fault, p, IF overflow THEN "OverflowError" ELSE "none")
  /\ response' = Set(response, p, "none")
  /\ market_df' = Set(market_df, p, <<>>)
  /\ outcome' = Set(outcome, p, "none")
  /\ final_output_date' = Set(final_output_date, p, NoDate)
  /\ net_calls' = Set(net_calls, p, 0)
  /\ writes' = Set(writes, p, 0)
  /\ files0' = Set(files0, p, files)
  /\ tables0' = Set(tables0, p, tables)
  /\ UNCHANGED <<TW_HOLIDAYS, data_folder, files, tables, writer, last, saved, unit>>

\* find_last_trading_day, one evaluation of the while condition of line 54:
\* return target_date when it is a trading day, else step it back one day
\* (datetime raises OverflowError below datetime.min)
FltStep(p) ==
  /\ pc[p] = "flt"
  /\ LET trading == is_trading_day(TW_HOLIDAYS, flt_date[p])
         overflow == ~trading /\ ~can_step_back(flt_date[p])
         resolved == trading /\ flt_ret[p] = "resolve"
         reported == trading /\ flt_ret[p] = "abort"
     IN  /\ itd_arg' = Set(itd_arg, p, flt_date[p])
         /\ itd_res' = Set(itd_res, p, trading)
         /\ flt_date' = Set(flt_date, p, IF trading \/ overflow THEN flt_date[p]
                                          ELSE step_back(flt_date[p]))
         /\ target_check_date' = Set(target_check_date, p,
                                     IF resolved THEN flt_date[p] ELSE target_check_date[p])
         /\ final_output_date' = Set(final_output_date, p,
                                     IF reported THEN flt_date[p] ELSE final_output_date[p])
         /\ pc' = Set(pc, p, IF resolved THEN "check"
                             ELSE IF reported THEN "report"
                             ELSE IF overflow THEN "crashed"
                             ELSE "flt")
         /\ fault' = Set(fault, p, IF overflow THEN "OverflowError" ELSE fault[p])
  /\ UNCHANGED <<shared, caller, flt_arg, flt_ret, now_tst, scenario, response,
                 market_df, outcome, net_calls, writes, files0, tables0, unit>>

(***************************************************************************)
(* FetchOrchestrator: lines 194-228                                        *)
(***************************************************************************)
\* the mutant of is_future_date: the guard of line 200 left out
is_future_date_unguarded(target, now) == FALSE

\* line 200: target_check_date.date() > now_tst.date()
is_future_date(target, now) == date_of(target) > date_of(now)

\* main(), lines 194-203: the existence check and the future-date guard
Check(p) ==
  /\ pc[p] = "check"
  /\ LET present == is_data_fetched(files, target_check_date[p])
         future == ~present /\ is_future_date(target_check_date[p], now_tst[p])
     IN  /\ outcome' = Set(outcome, p, IF present THEN "already_present"
                                       ELSE IF future THEN "aborted_future_date"
                                       ELSE outcome[p])
         /\ final_output_date' = Set(final_output_date, p,
                                     IF present THEN target_check_date[p]
                                     ELSE final_output_date[p])
         /\ flt_arg' = Set(flt_arg, p, IF future THEN now_tst[p] ELSE flt_arg[p])
         /\ flt_date' = Set(flt_date, p, IF future THEN now_tst[p] ELSE flt_date[p])
         /\ flt_ret' = Set(flt_ret, p, IF future THEN "abort" ELSE flt_ret[p])
         /\ pc' = Set(pc, p, IF present THEN "report"
                             ELSE IF future THEN "flt"
                             ELSE "fetch")
  /\ UNCHANGED <<shared, caller, fault, itd_arg, itd_res, now_tst, scenario,
                 target_check_date, response, market_df, net_calls, writes,
                 files0, tables0, unit>>

\* the mutant of pc_after_fetch: an empty result is fetched again
pc_after_fetch_retry(df) == IF df # <<>> THEN "save" ELSE "fetch"

\* main(), line 206: save only a non-empty DataFrame
pc_after_fetch(df) == IF df # <<>> THEN "save" ELSE "report"

\* main(), lines 205-206 and 223: the one request of the invocation, answered
\* by resp
Fetch(p, resp) ==
  /\ pc[p] = "fetch"
  /\ LET got == fetch_twse_daily_summary(strftime_Ymd(target_check_date[p]), resp)
         raised == got.exc # "none"
         nxt == pc_after_fetch(got.df)
     IN  /\ net_calls' = Set(net_calls, p, net_calls[p] + 1)
         /\ response' = Set(response, p, response_class(resp))
         /\ market_df' = Set(market_df, p, IF raised THEN market_df[p] ELSE got.df)
         /\ fault' = Set(fault, p, IF raised THEN got.exc ELSE fault[p])
         /\ outcome' = Set(outcome, p, IF ~raised /\ nxt # "save" THEN "fetched_empty"
                                       ELSE outcome[p])
         /\ final_output_date' = Set(final_output_date, p,
                                     IF ~raised /\ nxt = "report" THEN target_check_date[p]
                                     ELSE final_output_date[p])
         /\ pc' = Set(pc, p, IF raised THEN "crashed" ELSE nxt)
  /\ UNCHANGED <<shared, caller, calendar_locals, now_tst, scenario,
                 target_check_date, writes, files0, tables0, unit>>

(***************************************************************************)
(* PersistenceStore: save_to_sqlite, lines 130-155                         *)
(***************************************************************************)
\* the mutant of to_sql: if_exists='append'
to_sql_append(tbl, key, df) == [tbl EXCEPT ![key] = @ \o df]

\* the mutant of to_sql: the table is written only when the file has none
to_sql_if_absent(tbl, key, df) == IF tbl[key] # <<>> THEN tbl ELSE [tbl EXCEPT ![key] = df]

\* df.to_sql(TABLE_NAME, engine, if_exists='replace', index=False)
to_sql(tbl, key, df) == [tbl EXCEPT ![key] = df]

\* the mutant of save_to_sqlite: without the guard of line 135
save_to_sqlite_unguarded(st, df, target_date) ==
  LET key == strftime_Ymd(target_date)
  IN  [folder |-> TRUE,
       files |-> st.files \cup {key},
       tables |-> to_sql(st.tables, key, df),
       written |-> TRUE]

\* the mutant of save_to_sqlite: one file name for every date
save_to_sqlite_fixed_name(st, df, target_date) ==
  IF df = <<>>
  THEN [folder |-> st.folder, files |-> st.files, tables |-> st.tables,
        written |-> FALSE]
  ELSE [folder |-> TRUE,
        files |-> st.files \cup {MinOrdinal},
        tables |-> to_sql(st.tables, MinOrdinal, df),
        written |-> TRUE]

\* save_to_sqlite(df, target_date) on the store st: the store it leaves, and
\* whether it wrote (os.makedirs, then to_sql creating the file if absent and
\* replacing its table)
save_to_sqlite(st, df, target_date) ==
  LET key == strftime_Ymd(target_date)
  IN  IF df = <<>>
      THEN [folder |-> st.folder, files |-> st.files, tables |-> st.tables,
            written |-> FALSE]
      ELSE [folder |-> TRUE,
            files |-> st.files \cup {key},
            tables |-> to_sql(st.tables, key, df),
            written |-> TRUE]

\* the store as save_to_sqlite sees it
Store == [folder |-> data_folder, files |-> files, tables |-> tables]

\* main(), lines 207-223, or a direct call: save_to_sqlite runs, and its
\* caller goes on (main() to the status line, a direct call is over)
Save(p) ==
  /\ pc[p] = "save"
  /\ LET st == save_to_sqlite(Store, market_df[p], target_check_date[p])
     IN  /\ data_folder' = st.folder
         /\ files' = st.files
         /\ tables' = st.tables
         /\ writer' = IF st.written
                      THEN [writer EXCEPT ![strftime_Ymd(target_check_date[p])] = p]
                      ELSE writer
         /\ writes' = Set(writes, p, IF st.written THEN writes[p] + 1 ELSE writes[p])
  /\ saved' = IF caller[p] = "main" /\ market_df[p] # <<>>
              THEN saved \cup {date_of(target_check_date[p])}
              ELSE saved
  /\ outcome' = Set(outcome, p, IF caller[p] = "main" THEN "fetched_and_saved"
                                ELSE outcome[p])
  /\ final_output_date' = Set(final_output_date, p,
                              IF caller[p] = "main" THEN target_check_date[p]
                              ELSE final_output_date[p])
  /\ pc' = Set(pc, p, IF caller[p] = "main" THEN "report" ELSE "returned")
  /\ UNCHANGED <<TW_HOLIDAYS, clock, runs, last, caller, fault, calendar_locals,
                 now_tst, scenario, target_check_date, response, market_df,
                 net_calls, files0, tables0, unit>>

\* main(), lines 227-228: the final status line, and the process exits
Report(p) ==
  /\ pc[p] = "report"
  /\ last' = [target |-> strftime_Ymd(target_check_date[p]),
              outcome |-> outcome[p],
              present0 |-> strftime_Ymd(target_check_date[p]) \in files0[p],
              artifact |-> tables[strftime_Ymd(target_check_date[p])]]
  /\ pc' = Set(pc, p, "done")
  /\ UNCHANGED <<TW_HOLIDAYS, clock, runs, data_folder, files, tables, writer,
                 saved, caller, fault, unit>>
  /\ Reset(p)

\* the direct caller of save_to_sqlite is done with the result
Return(p) ==
  /\ pc[p] = "returned"
  /\ pc' = Set(pc, p, "done")
  /\ UNCHANGED <<shared, caller, fault, unit>>
  /\ Reset(p)

\* DataFrames a caller may hand to save_to_sqlite for the date of key
DataFrames(key) == {normalize_table[key][rows].df : rows \in RowLists}

\* target dates a direct caller hands to save_to_sqlite: two dates, at
\* midnight or with a time of day
SaveDateTimes == [ord : {MinOrdinal, MaxDay}, hour : {0, CUTOFF_HOUR}]

\* save_to_sqlite(df, target_date) called on its own
CallSave(p, df, d) ==
  /\ Stopped(p)
  /\ runs < MaxRuns
  /\ df \in DataFrames(strftime_Ymd(d))
  /\ runs' = runs + 1
  /\ caller' = Set(caller, p, "direct")
  /\ pc' = Set(pc, p, "save")
  /\ fault' = Set(fault, p, "none")
  /\ target_check_date' = Set(target_check_date, p, d)
  /\ market_df' = Set(market_df, p, df)
  /\ now_tst' = Set(now_tst, p, NoDate)
  /\ scenario' = Set(scenario, p, "none")
  /\ response' = Set(response, p, "none")
  /\ outcome' = Set(outcome, p, "none")
  /\ final_output_date' = Set(final_output_date, p, NoDate)
  /\ net_calls' = Set(net_calls, p, 0)
  /\ writes' = Set(writes, p, 0)
  /\ files0' = Set(files0, p, files)
  /\ tables0' = Set(tables0, p, tables)
  /\ itd_arg' = Set(itd_arg, p, NoDate)
  /\ itd_res' = Set(itd_res, p, FALSE)
  /\ flt_arg' = Set(flt_arg, p, NoDate)
  /\ flt_date' = Set(flt_date, p, NoDate)
  /\ flt_ret' = Set(flt_ret, p, "none")
  /\ UNCHANGED <<TW_HOLIDAYS, clock, data_folder, files, tables, writer, last, saved, unit>>

(***************************************************************************)
(* Specifications                                                          *)
(***************************************************************************)
\* the steps of one invocation
Step(p) ==
  \/ FltStep(p)
  \/ Check(p)
  \/ \E resp \in Responses : Fetch(p, resp)
  \/ Save(p)
  \/ Report(p)

\* the deployment of the program: one scheduled run at a time
Next ==
  \/ \E now \in DateTimes : Start(1, now)
  \/ Step(1)

Spec == Init /\ [][Next]_vars

\* a scheduled run in a behaviour that holds no direct call
StartScheduled(now) == caller[1] = "main" /\ Start(1, now)

\* a direct call in a behaviour that holds no scheduled run
CallSaveDirect(df, d) == (runs = 0 \/ caller[1] = "direct") /\ CallSave(1, df, d)

\* the unit harness of the store beside the scheduled runs: a behaviour is a
\* series of scheduled runs, or a series of direct calls of save_to_sqlite
NextSave ==
  \/ \E now \in DateTimes : StartScheduled(now)
  \/ Step(1)
  \/ \E d \in SaveDateTimes : \E df \in DataFrames(strftime_Ymd(d)) : CallSaveDirect(df, d)
  \/ Return(1)

SpecSave == Init /\ [][NextSave]_vars

\* an instance of the program is one process that runs main() once
StartOnce(p, now) == pc[p] = "idle" /\ Start(p, now)

\* two instances of the program that may run at the same time
NextConc ==
  \E p \in Procs :
    \/ \E now \in DateTimes : StartOnce(p, now)
    \/ Step(p)

SpecConc == Init /\ [][NextConc]_vars

\* main() entered at line 194 with a target date that lines 185-190 did not
\* compute: the resolver defect the guard of line 200 is written against
StartAtCheck(p, now, target) ==
  /\ Stopped(p)
  /\ runs < MaxRuns
  /\ now.hour \in Hours
  /\ dt_ge(now, clock)
  /\ clock' = now
  /\ runs' = runs + 1
  /\ caller' = Set(caller, p, "main")
  /\ pc' = Set(pc, p, "check")
  /\ fault' = Set(fault, p, "none")
  /\ now_tst' = Set(now_tst, p, now)
  /\ target_check_date' = Set(target_check_date, p, target)
  /\ scenario' = Set(scenario, p, "none")
  /\ response' = Set(response, p, "none")
  /\ market_df' = Set(market_df, p, <<>>)
  /\ outcome' = Set(outcome, p, "none")
  /\ final_output_date' = Set(final_output_date, p, NoDate)
  /\ net_calls' = Set(net_calls, p, 0)
  /\ writes' = Set(writes, p, 0)
  /\ files0' = Set(files0, p, files)
  /\ tables0' = Set(tables0, p, tables)
  /\ itd_arg' = Set(itd_arg, p, NoDate)
  /\ itd_res' = Set(itd_res, p, FALSE)
  /\ flt_arg' = Set(flt_arg, p, NoDate)
  /\ flt_date' = Set(flt_date, p, NoDate)
  /\ flt_ret' = Set(flt_ret, p, "none")
  /\ UNCHANGED <<TW_HOLIDAYS, data_folder, files, tables, writer, last, saved, unit>>

\* target dates of the harness: the first and the last date of the window, so
\* that a target is before, at or after the date of the clock
GuardTargets == [ord : {MinOrdinal, MaxDay}, hour : {0}]

\* the unit harness of lines 194-228: runs of main() from line 194 on
NextGuard ==
  \/ \E now \in DateTimes : \E target \in GuardTargets : StartAtCheck(1, now, target)
  \/ Step(1)

SpecGuard == Init /\ [][NextGuard]_vars

(***************************************************************************)
(* Price endpoint: src/backend/main.py, lines 6-21                         *)
(***************************************************************************)
\* str.upper() on the letters the symbols of the harness hold
upper_chr(c) ==
  CASE c = "a" -> "A" [] c = "p" -> "P" [] c = "l" -> "L"
    [] c = "t" -> "T" [] c = "w" -> "W" [] c = "x" -> "X"
    [] OTHER -> c

upper(s) == [i \in 1..Len(s) |-> upper_chr(s[i])]

\* the message of line 14 (Chinese in the source: code not found or source error)
NotFoundMessage == "not found or source error"

\* what yf.Ticker(symbol) / stock.info do: answer with a price, answer without
\* one, or raise an exception (exc is its str())
Upstreams ==
  [kind : {"price"}, price : 0..MaxPrice, exc : {"none"}]
    \cup [kind : {"no_price"}, price : {0}, exc : {"none"}]
    \cup [kind : {"raises"}, price : {0},
          exc : {"HTTPError", "ConnectionError", "KeyError", "AttributeError"}]

\* the mutant of get_stock_price: the body without its try / except
get_stock_price_unguarded(symbol, upstream) ==
  IF upstream.kind = "raises"
  THEN [raised |-> upstream.exc, body |-> [error |-> upstream.exc]]
  ELSE IF upstream.kind = "no_price"
  THEN [raised |-> "none", body |-> [error |-> NotFoundMessage]]
  ELSE [raised |-> "none", body |-> [symbol |-> upper(symbol), price |-> upstream.price]]

\* get_stock_price(symbol): the exception that leaves the handler ("none" when
\* it returns) and the body it returns
get_stock_price(symbol, upstream) ==
  IF upstream.kind = "raises"
  THEN [raised |-> "none", body |-> [error |-> upstream.exc]]
  ELSE IF upstream.kind = "no_price"
  THEN [raised |-> "none", body |-> [error |-> NotFoundMessage]]
  ELSE [raised |-> "none", body |-> [symbol |-> upper(symbol), price |-> upstream.price]]

(***************************************************************************)
(* Unit harness: one call of the normaliser, of the column coercion or of  *)
(* the price endpoint, on an argument drawn at the start.                  *)
(***************************************************************************)
Code0050 == <<"0", "0", "5", "0">>
Code233 == <<"2", "3", "3">>

\* security codes of the harness: four digits, four digits with leading
\* zeros, letters, three digits
CodeStrings == {Code2330, Code0050, CodeTWA00, Code233}

\* volumes of the harness: grouped digits, the placeholder, nothing, a word, a
\* decimal, a spelling of infinity
VolumeStrings == { <<"1", ",", "2", "3", "4">>, <<"-", "-">>, <<>>, <<"X">>,
                   <<"1", "2", ".", "7">>, <<"i", "n", "f">> }

\* cells of a numeric column
CellStrings == { <<"1", ",", "2", "3", "4", ",", "5", "6", "7">>, <<"-", "-">>, <<"-">>,
                 <<"-", "5">>, <<"+", "5">>, <<" ", "1", "2", " ">>,
                 <<"1", ".", "5", "0">>, <<"-", "1", ".", "5", "0">>, <<"X">>, <<>>,
                 <<"1", "-", "2">> }

\* symbols a client asks the price of
PriceSymbols == { <<"a", "a", "p", "l">>, <<"A", "A", "P", "L">>,
                  <<"2", "3", "3", "0", ".", "t", "w">>, <<"x">> }

\* sequences over S of length at most n
SeqUpTo(S, n) == UNION {[1..k -> S] : k \in 0..n}

UnitCalls ==
  [fn : {"normalize"}, arg : SeqUpTo([code : CodeStrings, volume : VolumeStrings], MaxRows)]
    \cup [fn : {"coerce"}, arg : SeqUpTo(CellStrings, MaxRows)]
    \cup [fn : {"get_stock_price"}, arg : [symbol : PriceSymbols, upstream : Upstreams]]

InitUnit ==
  /\ InitPipeline
  /\ TW_HOLIDAYS = {}
  /\ call \in UnitCalls
  /\ ret = NoReturn

\* lines 95-116 run on the rows of the call
NormalizeCall ==
  /\ call.fn = "normalize"
  /\ ~ret.done
  /\ ret' = [done |-> TRUE, val |-> normalize(MinOrdinal, call.arg)]
  /\ UNCHANGED <<shared, pc, caller, fault, calendar_locals, main_locals, call>>

\* lines 100-104 run on the column of the call
CoerceCall ==
  /\ call.fn = "coerce"
  /\ ~ret.done
  /\ ret' = [done |-> TRUE, val |-> coerce_column(call.arg)]
  /\ UNCHANGED <<shared, pc, caller, fault, calendar_locals, main_locals, call>>

\* GET /price/{symbol} handled
PriceCall ==
  /\ call.fn = "get_stock_price"
  /\ ~ret.done
  /\ ret' = [done |-> TRUE, val |-> get_stock_price(call.arg.symbol, call.arg.upstream)]
  /\ UNCHANGED <<shared, pc, caller, fault, calendar_locals, main_locals, call>>

NextUnit ==
  \/ NormalizeCall
  \/ CoerceCall
  \/ PriceCall

SpecUnit == InitUnit /\ [][NextUnit]_vars

(***************************************************************************)
(* Properties                                                              *)
(***************************************************************************)
Midnight(o) == [ord |-> o, hour |-> 0]

\* the date o is a trading day of the calendar
TradingDate(o) == is_trading_day(TW_HOLIDAYS, Midnight(o))

\* some date of the datetime range at or before o is a trading day
TradingDayAtOrBefore(o) == \E r \in MinOrdinal..o : TradingDate(r)

\* the greatest trading day at or before o
LastTradingDate(o) ==
  CHOOSE r \in MinOrdinal..o : TradingDate(r) /\ \A x \in (r + 1)..o : ~TradingDate(x)

\* main() of process p has resolved its target date
Resolved(p) == caller[p] = "main" /\ target_check_date[p] # NoDate

\* the key of the target date of process p
TargetKey(p) == strftime_Ymd(target_check_date[p])

\* C1: the resolver takes exactly one of three cases, decided by "today is a
\* trading day" and "now >= 16:00", and the target is today (A), the last
\* trading day at or before yesterday (B), or the last trading day at or
\* before today (C).
C1_ResolverCases ==
  \A p \in Procs :
    LET today == date_of(now_tst[p])
        guardA == TradingDate(today) /\ now_tst[p].hour >= CUTOFF_HOUR
        guardB == TradingDate(today) /\ now_tst[p].hour < CUTOFF_HOUR
        guardC == ~TradingDate(today)
    IN  /\ scenario[p] # "none" =>
             /\ Cardinality({g \in {guardA, guardB, guardC} : g}) >= 1
             /\ ~(guardA /\ guardB) /\ ~(guardA /\ guardC) /\ ~(guardB /\ guardC)
             /\ scenario[p] = "A" <=> guardA
             /\ scenario[p] = "B" <=> guardB
             /\ scenario[p] = "C" <=> guardC
        /\ Resolved(p) =>
             /\ guardA => target_check_date[p] = Midnight(today)
             /\ guardB => /\ flt_arg[p] = Midnight(today - 1)
                          /\ target_check_date[p] = Midnight(LastTradingDate(today - 1))
             /\ guardC => /\ flt_arg[p] = Midnight(today)
                          /\ target_check_date[p] = Midnight(LastTradingDate(today))

\* case B resolved across a gap: the target is earlier than yesterday
C1_Witness ==
  \E p \in Procs :
    /\ Resolved(p)
    /\ scenario[p] = "B"
    /\ date_of(target_check_date[p]) < date_of(now_tst[p]) - 1

\* C2: an invocation whose target date was present when it checked makes no
\* request and no write, leaves the store as it found it, and ends as
\* already_present.
C2_PresentSkipsFetch ==
  \A p \in Procs :
    (Resolved(p) /\ pc[p] # "check" /\ TargetKey(p) \in files0[p]) =>
      /\ pc[p] = "report"
      /\ outcome[p] = "already_present"
      /\ final_output_date[p] = target_check_date[p]
      /\ net_calls[p] = 0
      /\ writes[p] = 0
      /\ files = files0[p]
      /\ tables = tables0[p]

\* an invocation that found its target date present
C2_Witness ==
  \E p \in Procs :
    /\ pc[p] = "report"
    /\ TargetKey(p) \in files0[p]
    /\ outcome[p] = "already_present"

\* process p is about to print the status line of a scheduled run
Reporting(p) == caller[p] = "main" /\ pc[p] = "report"

\* C3: when the previous run resolved to a date that was persisted before it
\* started and this run resolves to the same date, both runs end as
\* already_present, this run makes no request, and the artifact of the date
\* is the one the previous run left.
C3_SecondRunIdentical ==
  \A p \in Procs :
    (Reporting(p) /\ last.present0 /\ last.target = TargetKey(p)) =>
      /\ last.outcome = "already_present"
      /\ outcome[p] = "already_present"
      /\ net_calls[p] = 0
      /\ tables[TargetKey(p)] = last.artifact
      /\ TargetKey(p) \in files

\* a second run in a row on a date that was persisted before the first
C3_Witness ==
  \E p \in Procs :
    /\ Reporting(p)
    /\ last.present0
    /\ last.target = TargetKey(p)
    /\ last.outcome = "already_present"
    /\ outcome[p] = "already_present"
    /\ tables[TargetKey(p)] # <<>>

\* C4: a run whose target is not persisted and whose response has an empty
\* row list ends as fetched_empty without calling save and without creating
\* an artifact; and save_to_sqlite called with an empty DataFrame returns
\* having written nothing.
C4_EmptyWritesNothing ==
  \A p \in Procs :
    /\ (caller[p] = "main" /\ response[p] = "empty_rows") =>
         /\ pc[p] = "report"
         /\ market_df[p] = <<>>
         /\ outcome[p] = "fetched_empty"
         /\ writes[p] = 0
         /\ TargetKey(p) \notin files
         /\ files = files0[p]
         /\ tables = tables0[p]
    /\ (caller[p] = "direct" /\ pc[p] = "returned" /\ market_df[p] = <<>>) =>
         /\ writes[p] = 0
         /\ files = files0[p]
         /\ tables = tables0[p]

\* a run that got an empty row list for a date that is not persisted
C4_Witness ==
  \E p \in Procs :
    /\ Reporting(p)
    /\ response[p] = "empty_rows"
    /\ outcome[p] = "fetched_empty"
    /\ TargetKey(p) \notin files0[p]

\* save_to_sqlite has returned from a direct call with an empty DataFrame
C4_WitnessDirect ==
  \E p \in Procs : caller[p] = "direct" /\ pc[p] = "returned" /\ market_df[p] = <<>>

\* C5: an invocation makes at most one request and at most one write, and it
\* writes only after its request returned a non-empty DataFrame.
C5_OneRequestOneWrite ==
  \A p \in Procs :
    caller[p] = "main" =>
      /\ net_calls[p] <= 1
      /\ writes[p] <= 1
      /\ writes[p] = 1 => (net_calls[p] = 1 /\ market_df[p] # <<>>)
      /\ pc[p] = "save" => (net_calls[p] = 1 /\ market_df[p] # <<>>)

\* an invocation that made its request and its write
C5_Witness ==
  \E p \in Procs : Reporting(p) /\ net_calls[p] = 1 /\ writes[p] = 1

\* processes p and q both found the same target date absent when they
\* started, both fetched and both saved
BothSaved(p, q) ==
  /\ p # q
  /\ Reporting(p) /\ Reporting(q)
  /\ TargetKey(p) = TargetKey(q)
  /\ outcome[p] = "fetched_and_saved" /\ outcome[q] = "fetched_and_saved"

\* C6: the existence check is not atomic with the write.  Two instances that
\* overlap on one absent target date may both pass the check; then each has
\* made its own request and its own write, and the artifact holds what the
\* later writer fetched, not a merge and not the earlier write.
C6_RaceOverwrites ==
  \A p, q \in Procs :
    BothSaved(p, q) =>
      /\ TargetKey(p) \notin files0[p] /\ TargetKey(q) \notin files0[q]
      /\ net_calls[p] = 1 /\ net_calls[q] = 1
      /\ writes[p] = 1 /\ writes[q] = 1
      /\ writer[TargetKey(p)] \in {p, q}
      /\ tables[TargetKey(p)] = market_df[writer[TargetKey(p)]]

\* the race: both fetched, the fetches differ, and the artifact is the later
\* writer's while the earlier writer's rows are gone
C6_Witness ==
  \E p, q \in Procs :
    /\ BothSaved(p, q)
    /\ writer[TargetKey(p)] = q
    /\ market_df[p] # market_df[q]
    /\ tables[TargetKey(p)] = market_df[q]

\* find_last_trading_day of process p has returned to line 188 or 190
FltReturned(p) == flt_ret[p] = "resolve" /\ target_check_date[p] # NoDate

\* find_last_trading_day of process p has raised
FltRaised(p) == flt_arg[p] # NoDate /\ pc[p] = "crashed" /\ fault[p] = "OverflowError"

\* C7: when a trading day exists at or before the input d,
\* find_last_trading_day(d) returns the greatest trading day r <= d: no date
\* in r+1..d is a trading day, r = d when d is a trading day, and the time of
\* day of d is kept.
C7_GreatestTradingDay ==
  \A p \in Procs :
    LET d == flt_arg[p]
        r == target_check_date[p]
    IN  /\ FltReturned(p) =>
             /\ r.ord <= d.ord
             /\ r.hour = d.hour
             /\ is_trading_day(TW_HOLIDAYS, r)
             /\ \A x \in (r.ord + 1)..d.ord : ~TradingDate(x)
             /\ is_trading_day(TW_HOLIDAYS, d) => r = d
        /\ (flt_arg[p] # NoDate /\ TradingDayAtOrBefore(d.ord)) => ~FltRaised(p)

\* a call that stepped back over at least two non-trading days
C7_Witness ==
  \E p \in Procs :
    /\ FltReturned(p)
    /\ target_check_date[p].ord + 2 <= flt_arg[p].ord

\* C8: on a calendar with no trading day at or before the input,
\* find_last_trading_day ends with the fatal CalendarExhausted condition.
C8_CalendarExhausted ==
  \A p \in Procs :
    (flt_arg[p] # NoDate /\ ~TradingDayAtOrBefore(flt_arg[p].ord) /\ pc[p] # "flt") =>
      (pc[p] = "crashed" /\ fault[p] = "CalendarExhausted")

\* Saturday or Sunday, counted from ordinal 1, a Monday
IsWeekend(o) == (o - MinOrdinal) % 7 \in {5, 6}

C10_NetworkFailureRecovered ==
  \A p \in Procs :
    response[p] = "network_failure" =>
      /\ fault[p] = "none"
      /\ pc[p] = "report"
      /\ market_df[p] = <<>>
      /\ outcome[p] = "fetched_empty"
      /\ writes[p] = 0
      /\ files = files0[p]
      /\ tables = tables0[p]

\* an invocation whose request failed at the network level
C10_Witness ==
  \E p \in Procs :
    /\ Reporting(p)
    /\ response[p] = "network_failure"
    /\ net_calls[p] = 1

\* C11: whenever the parsed response matches neither known shape, or lacks an
\* element lines 84-116 expect (table 8, its field list, its row list, the
\* volume field, the security-code field), the fetch has returned an empty
\* DataFrame and has not raised.
C11_SchemaMismatchRecovered ==
  \A p \in Procs :
    response[p] \in {"no_tables", "broken_shape"} =>
      /\ fault[p] = "none"
      /\ pc[p] # "crashed"
      /\ market_df[p] = <<>>

\* C12: when the target date is not persisted and lies after the current
\* local date, the invocation makes no request and no write, its outcome is
\* aborted_future_date, and the date it reports is find_last_trading_day(now):
\* the last trading day at or before today, with the time of day of now.
C12_FutureDateAborts ==
  \A p \in Procs :
    (/\ Resolved(p)
     /\ pc[p] # "check"
     /\ TargetKey(p) \notin files0[p]
     /\ date_of(target_check_date[p]) > date_of(now_tst[p])) =>
      /\ outcome[p] = "aborted_future_date"
      /\ pc[p] \in {"flt", "report", "crashed"}
      /\ net_calls[p] = 0
      /\ response[p] = "none"
      /\ writes[p] = 0
      /\ files = files0[p] /\ tables = tables0[p]
      /\ pc[p] = "report" =>
           final_output_date[p] = [ord |-> LastTradingDate(date_of(now_tst[p])),
                                   hour |-> now_tst[p].hour]

\* a run whose target is in the future is at its status line, and the date it
\* reports is before today
C12_Witness ==
  /\ Reporting(1)
  /\ outcome[1] = "aborted_future_date"
  /\ date_of(target_check_date[1]) > date_of(now_tst[1])
  /\ final_output_date[1].ord < date_of(now_tst[1])

\* save_to_sqlite has returned to process p from a call with a non-empty
\* DataFrame
SavedNonEmpty(p) ==
  /\ market_df[p] # <<>>
  /\ \/ caller[p] = "direct" /\ pc[p] = "returned"
     \/ Reporting(p) /\ outcome[p] = "fetched_and_saved"

\* C13: after save_to_sqlite(df, d) with a non-empty df, the file of d holds
\* exactly the rows of df whatever it held before, the data folder exists, and
\* the file and the rows of every other date are as they were.
C13_FullReplace ==
  \A p \in Procs :
    SavedNonEmpty(p) =>
      /\ data_folder
      /\ TargetKey(p) \in files
      /\ tables[TargetKey(p)] = market_df[p]
      /\ \A d \in Dates \ {TargetKey(p)} :
           /\ tables[d] = tables0[p][d]
           /\ d \in files <=> d \in files0[p]

\* a save has replaced rows of its date that differ from the new ones, while
\* another date holds an artifact
C13_Witness ==
  /\ SavedNonEmpty(1)
  /\ tables0[1][TargetKey(1)] # <<>>
  /\ tables0[1][TargetKey(1)] # market_df[1]
  /\ \E d \in Dates \ {TargetKey(1)} : d \in files /\ tables[d] # <<>>

\* C14: at the status line of every invocation, whatever its path, the date
\* of final_output_date is a date whose file exists at that moment.
C14_ReportedDatePersisted ==
  \A p \in Procs :
    Reporting(p) => is_data_fetched(files, final_output_date[p])

\* the normaliser has returned a frame for the rows of the call
Normalized == call.fn = "normalize" /\ ret.done /\ ret.val.exc = "none"

\* C15: the normaliser keeps exactly the rows whose security code is four
\* ASCII digits, whatever the other rows of the batch are, and the Stock_ID
\* of a kept row prints as the code it came from (leading zeros included).
C15_FourDigitCodesKept ==
  Normalized =>
    LET kept == SelectSeq(call.arg, LAMBDA r : match_4digits(r.code))
    IN  /\ Len(ret.val.df) = Len(kept)
        /\ \A i \in 1..Len(kept) :
             astype_str(ret.val.df[i].Stock_ID, FALSE) = kept[i].code

\* the value the rule gives the raw cell s: zero for the placeholders, else
\* the number s denotes once commas and surrounding blanks are gone, NaN
\* when it denotes none
DenotedCell(s) ==
  LET t == strip(remove_commas(s))
  IN  IF t \in { <<"-">>, <<"-", "-">> } THEN Num(0) ELSE to_numeric(t)

\* C16: for every raw string of a numeric field the coerced cell is the
\* number the string denotes after commas and surrounding blanks are
\* stripped (a signed value keeps its value), zero for "-" and "--", and NaN
\* when the string is no number; the column is never aborted.
C16_CellCoercion ==
  (call.fn = "coerce" /\ ret.done) =>
    /\ Len(ret.val.cells) = Len(call.arg)
    /\ \A i \in 1..Len(call.arg) : ret.val.cells[i] = DenotedCell(call.arg[i])

\* C17: for every raw volume string the normaliser returns, and every row it
\* returns has an integer volume >= 0, which is 0 when the volume was missing
\* or no number.
C17_VolumeNonNegativeInt ==
  (call.fn = "normalize" /\ ret.done) =>
    /\ ret.val.exc = "none"
    /\ \A j \in 1..Len(ret.val.df) : ret.val.df[j].Volume \in Nat
    /\ (\A i \in 1..Len(call.arg) : DenotedCell(call.arg[i].volume).nan) =>
         \A j \in 1..Len(ret.val.df) : ret.val.df[j].Volume = 0

\* C18: for every symbol and every behaviour of the quote source the handler
\* returns a body {symbol, price} or a body {error}, no exception leaves it,
\* and the body is {symbol, price} only when the source supplied that price.
C18_PriceOrError ==
  (call.fn = "get_stock_price" /\ ret.done) =>
    /\ ret.val.raised = "none"
    /\ DOMAIN ret.val.body \in { {"symbol", "price"}, {"error"} }
    /\ DOMAIN ret.val.body = {"symbol", "price"} =>
         /\ call.arg.upstream.kind = "price"
         /\ ret.val.body.price = call.arg.upstream.price
         /\ ret.val.body.symbol = upper(call.arg.symbol)

\* the quote source raised, and the handler has returned the error body with
\* the exception's message
C18_Witness ==
  /\ call.fn = "get_stock_price"
  /\ ret.done
  /\ call.arg.upstream.kind = "raises"
  /\ ret.val.raised = "none"
  /\ ret.val.body = [error |-> call.arg.upstream.exc]

\* C19: whenever the resolver has produced a target (some trading day lies at
\* or before today), the target is a trading day not after today: today in
\* case A, an earlier day in cases B and C.  The future-date branch of line
\* 200 is never taken.
C19_TargetNeverFuture ==
  \A p \in Procs :
    /\ Resolved(p) =>
         LET today == date_of(now_tst[p])
             target == date_of(target_check_date[p])
         IN  /\ TradingDate(target)
             /\ target <= today
             /\ scenario[p] = "A" => target = today
             /\ scenario[p] \in {"B", "C"} => target < today
             /\ ~is_future_date(target_check_date[p], now_tst[p])
    /\ outcome[p] # "aborted_future_date"
    /\ flt_ret[p] # "abort"

\* a run on a non-trading day has passed the guard of line 200 with a target
\* more than one day back
C19_Witness ==
  /\ Resolved(1)
  /\ scenario[1] = "C"
  /\ pc[1] = "fetch"
  /\ date_of(target_check_date[1]) < date_of(now_tst[1]) - 1

\* C20: from an empty store and under sequential runs, the file of a date
\* exists exactly when some run so far fetched a non-empty frame for that
\* date and saved it.  A run that ends with an empty fetch, a network failure
\* or an abort leaves the store as it was, so the next run on that date
\* sends a request again; once a date is saved, a run on it ends
\* already_present.
C20_StoreTracksSaves ==
  /\ files = saved
  /\ \A d \in Dates : d \in files <=> tables[d] # <<>>
  /\ \A p \in Procs :
       Reporting(p) =>
         /\ outcome[p] \in {"fetched_empty", "aborted_future_date"} =>
              files = files0[p] /\ tables = tables0[p]
         /\ outcome[p] = "fetched_and_saved" => TargetKey(p) \in files
         /\ outcome[p] = "already_present" <=> TargetKey(p) \in files0[p]
         /\ TargetKey(p) \notin files0[p] => net_calls[p] = 1
         /\ (last.outcome = "fetched_empty" /\ last.target = TargetKey(p)) =>
              net_calls[p] = 1

\* the run before this one fetched nothing for the date, and this run has
\* fetched the same date again and saved it
C20_Witness ==
  /\ Reporting(1)
  /\ last.outcome = "fetched_empty"
  /\ last.target = TargetKey(1)
  /\ outcome[1] = "fetched_and_saved"
  /\ net_calls[1] = 1
  /\ TargetKey(1) \in files

=============================================================================
